---------------------------- MODULE Spec2Model ----------------------------
(***************************************************************************)
(* Model of the spreadsheet-to-JSON converters of spices_dash:             *)
(*   src/convert_india_spices_to_json.py          (India Spices workbook)  *)
(*   src/demo_final/data-extractor/generate_distributors_json.py           *)
(*                                                                         *)
(* A sheet is what pandas.read_excel returns: a grid of cells.  A cell is  *)
(* NaN (empty), a text or a number.  A text is a sequence of tokens: the   *)
(* hierarchy marker ">", the blank " ", or a word; str.strip, str.lstrip   *)
(* and str.count act on the tokens as Python acts on the characters.       *)
(* Python indices are 0-based, TLA+ sequences 1-based: At(s, i) reads      *)
(* Python's s[i].                                                          *)
(***************************************************************************)
EXTENDS Integers, Sequences, FiniteSets, TLC

VARIABLES
    pc,             \* position of the run inside __main__ / the pipeline
    workbook,       \* the Excel file on disk (never written)
    output_file,    \* the JSON file on disk: "absent", "old" or "written"
    console,        \* what the run printed last: "", "error", "not_found", "success"
    metadata,       \* result of extract_metadata
    geographies,    \* result of extract_geography_hierarchy
    segments,       \* result of extract_segment_hierarchy
    value_records,  \* extract_data_records(..., 'Master Sheet-Value', ...)
    volume_records, \* extract_data_records(..., 'Master Sheet-Volume', ...)
    result,         \* the assembled document (convert) / the distributors document
    module_idx,     \* generate_distributors_json: index of the module being extracted
    share_year      \* the year of the last calculate_market_share(value_records, year), 0 before

vars == <<pc, workbook, output_file, console, metadata, geographies, segments,
          value_records, volume_records, result, module_idx, share_year>>

----------------------------------------------------------------------------
(* Cells and texts *)

GT == ">"
SP == " "

NaN == [t |-> "nan", s |-> <<>>, v |-> 0]
Str(s) == [t |-> "str", s |-> s, v |-> 0]
Num(v) == [t |-> "num", s |-> <<>>, v |-> v]

\* Python's None, as dict.get and Series.get return it
None == [t |-> "none", s |-> <<>>, v |-> 0]

\* pd.notna(x)
notna(x) == x.t \notin {"nan", "none"}

\* a number the reader hands over as a float: str() shows it with ".0"
Flt(v) == [t |-> "flt", s |-> <<>>, v |-> v]

\* str(x) of a cell that is not NaN
str(x) ==
    IF x.t = "str" THEN x.s
    ELSE IF x.t = "flt" THEN <<ToString(x.v), ".", "0">>
    ELSE <<ToString(x.v)>>

At(s, i) == s[i + 1]

Max(S) == CHOOSE x \in S : \A y \in S : y <= x
Min(S) == CHOOSE x \in S : \A y \in S : x <= y

RECURSIVE LStrip(_, _)
\* s.lstrip(ch)
LStrip(s, ch) ==
    IF s # <<>> /\ Head(s) = ch THEN LStrip(Tail(s), ch) ELSE s

RECURSIVE RStrip(_, _)
\* s.rstrip(ch)
RStrip(s, ch) ==
    IF s # <<>> /\ s[Len(s)] = ch THEN RStrip(SubSeq(s, 1, Len(s) - 1), ch) ELSE s

\* s.strip(): blanks removed at both ends
strip(s) == RStrip(LStrip(s, SP), SP)

RECURSIVE count(_, _)
\* s.count(ch): every occurrence, wherever it stands in s
count(s, ch) ==
    IF s = <<>> THEN 0
    ELSE (IF Head(s) = ch THEN 1 ELSE 0) + count(Tail(s), ch)

\* d[k] = v on a dict modelled as a function
Put(d, k, v) == [x \in (DOMAIN d) \cup {k} |-> IF x = k THEN v ELSE d[x]]

EmptyDict == [x \in {} |-> <<>>]

\* the elements of a list, as list(set(items)) keeps them (order not significant)
ToSet(s) == {s[i] : i \in DOMAIN s}

\* x in lst
InList(x, lst) == \E i \in DOMAIN lst : lst[i] = x

----------------------------------------------------------------------------
(* extract_segment_hierarchy: df is the Segmentation sheet, a sequence of  *)
(* rows of equal width; iloc(df, r, c) is df.iloc[r, c].                   *)

iloc(df, r, c) == At(At(df, r), c)

\* 'Segmentation', the sheet's own title word
SegmentationWord == "Segmentation"

\* item.startswith('Segmentation')
StartsWithSegmentation(item) == item # <<>> /\ Head(item) = SegmentationWord

RECURSIVE NotNaTexts(_)
\* [str(x).strip() for x in cells if pd.notna(x)]
NotNaTexts(cells) ==
    IF cells = <<>> THEN <<>>
    ELSE IF notna(Head(cells))
         THEN <<strip(str(Head(cells)))>> \o NotNaTexts(Tail(cells))
         ELSE NotNaTexts(Tail(cells))

\* segment_types = [str(x).strip() for x in df.iloc[0, 1:] if pd.notna(x)]
SegmentTypes(df) == NotNaTexts(Tail(At(df, 0)))

RECURSIVE FindParentSameDepth(_, _, _, _)
\* FindParent with "prev_level <= level" for "prev_level < level"
FindParentSameDepth(df, col_idx, prev_idx, level) ==
    IF prev_idx < 0 THEN [found |-> FALSE, parent |-> <<>>]
    ELSE LET prev_value == iloc(df, prev_idx, col_idx) IN
         IF notna(prev_value) /\ count(strip(str(prev_value)), GT) <= level
         THEN [found |-> TRUE, parent |-> strip(LStrip(strip(str(prev_value)), GT))]
         ELSE FindParentSameDepth(df, col_idx, prev_idx - 1, level)

RECURSIVE FindParent(_, _, _, _)
\* the loop "for prev_idx in range(row_idx - 1, -1, -1)": the first cell, going
\* up to and including row 0, that is not NaN and has fewer markers than level.
\* found = FALSE is Python's parent = None.
FindParent(df, col_idx, prev_idx, level) ==
    IF prev_idx < 0 THEN [found |-> FALSE, parent |-> <<>>]
    ELSE LET prev_value == iloc(df, prev_idx, col_idx) IN
         IF notna(prev_value) /\ count(strip(str(prev_value)), GT) < level
         THEN [found |-> TRUE, parent |-> strip(LStrip(strip(str(prev_value)), GT))]
         ELSE FindParent(df, col_idx, prev_idx - 1, level)

\* hierarchy[parent].append(clean_item), creating the list if absent
AppendChild(hierarchy, parent, clean_item) ==
    IF parent \in DOMAIN hierarchy
    THEN Put(hierarchy, parent, Append(hierarchy[parent], clean_item))
    ELSE Put(hierarchy, parent, <<clean_item>>)

RECURSIVE ScanColumn(_, _, _, _)
\* the loop "for row_idx in range(1, len(df))" over one column; acc holds
\* items and hierarchy
ScanColumn(df, col_idx, row_idx, acc) ==
    IF row_idx >= Len(df) THEN acc
    ELSE
      LET cell_value == iloc(df, row_idx, col_idx)
          item       == strip(str(cell_value))
          clean_item == strip(LStrip(item, GT))
          level      == count(item, GT)
          p          == FindParent(df, col_idx, row_idx - 1, level)
          labelled   == /\ notna(cell_value)
                        /\ item # <<>>
                        /\ ~StartsWithSegmentation(item)
                        /\ clean_item # <<>>
          next ==
            IF ~labelled THEN acc
            ELSE [items |-> Append(acc.items, clean_item),
                  hierarchy |->
                    IF level > 0 /\ p.found /\ p.parent # <<>>
                    THEN AppendChild(acc.hierarchy, p.parent, clean_item)
                    ELSE acc.hierarchy]
      IN ScanColumn(df, col_idx, row_idx + 1, next)

\* the value stored in segments[seg_type] for the column col_idx
SegmentEntry(df, col_idx) ==
    LET acc == ScanColumn(df, col_idx, 1, [items |-> <<>>, hierarchy |-> EmptyDict])
    IN [type |-> IF DOMAIN acc.hierarchy # {} THEN "hierarchical" ELSE "flat",
        items |-> ToSet(acc.items),
        hierarchy |-> acc.hierarchy]

\* col_idx = seg_type_idx + 1
SegColIdx(seg_type_idx) == seg_type_idx + 1

RECURSIVE SegmentsFrom(_, _, _, _)
\* the loop "for seg_type_idx, seg_type in enumerate(segment_types)"
SegmentsFrom(df, segment_types, seg_type_idx, segs) ==
    IF seg_type_idx >= Len(segment_types) THEN segs
    ELSE LET seg_type == At(segment_types, seg_type_idx) IN
         IF seg_type = <<>> \/ seg_type = <<SegmentationWord>>
         THEN SegmentsFrom(df, segment_types, seg_type_idx + 1, segs)
         ELSE SegmentsFrom(df, segment_types, seg_type_idx + 1,
                           Put(segs, seg_type, SegmentEntry(df, SegColIdx(seg_type_idx))))

extract_segment_hierarchy(df) ==
    IF Len(df) > 0 THEN SegmentsFrom(df, SegmentTypes(df), 0, EmptyDict)
    ELSE EmptyDict

----------------------------------------------------------------------------
(* extract_metadata: df is the Parameters sheet, a sequence of rows; a row *)
(* is a sequence of one or more cells.                                     *)

\* a value's truth in "if key and value" and in "a or b": NaN is a non-zero
\* float, hence true; a text is true unless empty; a number unless zero
Truthy(x) == \/ x.t = "nan"
             \/ x.t = "str" /\ x.s # <<>>
             \/ x.t \in {"num", "flt"} /\ x.v # 0

\* phrase in key, for texts
Contains(key, phrase) ==
    \E i \in 0..(Len(key) - Len(phrase)) :
        SubSeq(key, i + 1, i + Len(phrase)) = phrase

\* token.lower()
lower(tok) ==
    CASE tok = "Yes" -> "yes"
      [] tok = "YES" -> "yes"
      [] tok = "No" -> "no"
      [] tok = "Module" -> "module"
      [] tok = "Standard" -> "standard"
      [] tok = "Advance" -> "advance"
      [] tok = "Premium" -> "premium"
      [] OTHER -> tok

\* str(value).strip().lower() == 'yes'
IsYes(value) ==
    LET s == strip(str(value)) IN Len(s) = 1 /\ lower(s[1]) = "yes"

\* MetadataField with the rule of has_value tried before the rule of value_unit
MetadataFieldValueFirst(key) ==
    IF Contains(key, <<"Report", SP, "Title">>) THEN "market_name"
    ELSE IF Contains(key, <<"Market", SP, "Type">>) THEN "market_type"
    ELSE IF Contains(key, <<"Industry", SP, "Type">>) THEN "industry"
    ELSE IF Contains(key, <<"Value", SP, "Currency">>) THEN "currency"
    ELSE IF Contains(key, <<"Value">>) /\ ~Contains(key, <<"Currency">>) THEN "has_value"
    ELSE IF Contains(key, <<"Value", SP, "Unit">>) THEN "value_unit"
    ELSE IF Contains(key, <<"Volume", SP, "Unit">>) THEN "volume_unit"
    ELSE IF Contains(key, <<"Volume">>) /\ ~Contains(key, <<"Unit">>) THEN "has_volume"
    ELSE ""

\* the if/elif chain of extract_metadata: the field a key populates, "" if none
MetadataField(key) ==
    IF Contains(key, <<"Report", SP, "Title">>) THEN "market_name"
    ELSE IF Contains(key, <<"Market", SP, "Type">>) THEN "market_type"
    ELSE IF Contains(key, <<"Industry", SP, "Type">>) THEN "industry"
    ELSE IF Contains(key, <<"Value", SP, "Currency">>) THEN "currency"
    ELSE IF Contains(key, <<"Value", SP, "Unit">>) THEN "value_unit"
    ELSE IF Contains(key, <<"Volume", SP, "Unit">>) THEN "volume_unit"
    ELSE IF Contains(key, <<"Value">>) /\ ~Contains(key, <<"Currency">>) THEN "has_value"
    ELSE IF Contains(key, <<"Volume">>) /\ ~Contains(key, <<"Unit">>) THEN "has_volume"
    ELSE ""

\* one turn of "for idx, row in df.iterrows()"
MetadataRow(md, row) ==
    LET keyok == notna(row[1])
        key   == IF keyok THEN strip(str(row[1])) ELSE <<>>
        valok == Len(row) > 1 /\ notna(row[2])
        field == MetadataField(key)
    IN IF keyok /\ key # <<>> /\ valok /\ Truthy(row[2]) /\ field # ""
       THEN IF field \in {"has_value", "has_volume"}
            THEN Put(md, field, IsYes(row[2]))
            ELSE Put(md, field, strip(str(row[2])))
       ELSE md

RECURSIVE MetadataRows(_, _)
MetadataRows(md, rows) ==
    IF rows = <<>> THEN md ELSE MetadataRows(MetadataRow(md, Head(rows)), Tail(rows))

\* metadata.setdefault(k, v)
setdefault(md, k, v) == IF k \in DOMAIN md THEN md ELSE Put(md, k, v)

MetadataDefaults(md) ==
    setdefault(setdefault(setdefault(setdefault(setdefault(setdefault(setdefault(setdefault(md,
        "market_name", <<"India Spices Market">>),
        "market_type", <<"Country">>),
        "industry", <<"CMFE">>),
        "currency", <<"INR">>),
        "value_unit", <<"Cr.">>),
        "volume_unit", <<"Kilo Tons">>),
        "has_value", TRUE),
        "has_volume", TRUE)

extract_metadata(df) == MetadataDefaults(MetadataRows(EmptyDict, df))

----------------------------------------------------------------------------
(* extract_geography_hierarchy: df is the Region sheet.  countries is a    *)
(* dict whose iteration order matters later: a sequence of                 *)
(* [region, list] entries in insertion order.                              *)

India == "India"

RECURSIVE RegionNames(_)
\* [str(x).strip() for x in first_row[1:] if pd.notna(x) and str(x).strip() != 'India']
RegionNames(cells) ==
    IF cells = <<>> THEN <<>>
    ELSE IF notna(Head(cells)) /\ strip(str(Head(cells))) # <<India>>
         THEN <<strip(str(Head(cells)))>> \o RegionNames(Tail(cells))
         ELSE RegionNames(Tail(cells))

\* the list under key k of an ordered dict, <<>> if the key is absent
DictGet(d, k) ==
    IF \E i \in DOMAIN d : d[i].region = k
    THEN d[CHOOSE i \in DOMAIN d : d[i].region = k].list
    ELSE <<>>

\* AddCountry without the test "if val_str not in countries[region]"
AddCountryNoDedup(countries, region, val_str) ==
    IF \E i \in DOMAIN countries : countries[i].region = region
    THEN [i \in DOMAIN countries |->
            IF countries[i].region = region
            THEN [region |-> region, list |-> Append(countries[i].list, val_str)]
            ELSE countries[i]]
    ELSE Append(countries, [region |-> region, list |-> <<val_str>>])

\* countries[region] of the defaultdict, then append unless already there
AddCountry(countries, region, val_str) ==
    IF \E i \in DOMAIN countries : countries[i].region = region
    THEN [i \in DOMAIN countries |->
            IF countries[i].region = region /\ ~InList(val_str, countries[i].list)
            THEN [region |-> region, list |-> Append(countries[i].list, val_str)]
            ELSE countries[i]]
    ELSE Append(countries, [region |-> region, list |-> <<val_str>>])

\* the body of the two loops for the cell (idx, col_idx)
GeoCell(df, regions, acc, idx, col_idx) ==
    LET val      == iloc(df, idx, col_idx)
        val_str  == strip(str(val))
        hdr      == iloc(df, 0, col_idx)
        region   == IF notna(hdr) THEN strip(str(hdr)) ELSE <<>>
    IN IF notna(val) /\ val_str # <<>> /\ col_idx < Len(At(df, 0))
          /\ notna(hdr) /\ region # <<>> /\ InList(region, regions)
       THEN [countries |-> AddCountry(acc.countries, region, val_str),
             all |-> acc.all \cup {val_str}]
       ELSE acc

RECURSIVE GeoScan(_, _, _, _, _)
\* "for idx in range(1, len(df))" and "for col_idx in range(1, len(row))"
GeoScan(df, regions, acc, idx, col_idx) ==
    IF idx >= Len(df) THEN acc
    ELSE IF col_idx >= Len(At(df, idx)) THEN GeoScan(df, regions, acc, idx + 1, 1)
    ELSE GeoScan(df, regions, GeoCell(df, regions, acc, idx, col_idx), idx, col_idx + 1)

extract_geography_hierarchy(df) ==
    LET global_geo == <<<<India>>>>
        regions == IF Len(df) > 0 THEN RegionNames(Tail(At(df, 0))) ELSE <<>>
        acc == GeoScan(df, regions,
                       [countries |-> <<>>, all |-> {<<India>>} \cup ToSet(regions)], 1, 1)
    IN [global |-> global_geo,
        regions |-> regions,
        countries |-> acc.countries,
        all_geographies |-> acc.all]

----------------------------------------------------------------------------
(* extract_data_records: df is a Master Sheet read with header=0:          *)
(*   columns  the headers other than Geography and the four segment levels,*)
(*            each an integer (k = "int"), a text of digits (k = "str") or *)
(*            another text (k = "text");                                   *)
(*   rows     per row the cells Geography, L1..L4 and cells, the latter    *)
(*            aligned with columns.  A named column the sheet lacks reads  *)
(*            as NaN in every row (row.get(...) is None, pd.notna False).  *)
(* Numbers are integers; cagr is held in hundredths of a percent (what     *)
(* round(cagr, 2) keeps) and market_share as the fraction num/den.         *)

\* an optional text: Python's None or a str
NoText == [some |-> FALSE, s |-> <<>>]
Text(s) == [some |-> TRUE, s |-> s]

\* a or b on optional texts
Or(a, b) == IF a.some /\ a.s # <<>> THEN a ELSE b

\* str(cell).strip() if pd.notna(cell) else None
CellText(cell) == IF notna(cell) THEN Text(strip(str(cell))) ELSE NoText

\* the try/except around int(col) and the test 2000 <= year <= 2100
IsYearColumn(col) == col.k \in {"int", "str"} /\ 2000 <= col.y /\ col.y <= 2100

RECURSIVE YearsOf(_)
\* the years appended to year_columns, in column order
YearsOf(columns) ==
    IF columns = <<>> THEN <<>>
    ELSE IF IsYearColumn(Head(columns))
         THEN <<Head(columns).y>> \o YearsOf(Tail(columns))
         ELSE YearsOf(Tail(columns))

RECURSIVE Insert(_, _)
Insert(x, lst) ==
    IF lst = <<>> THEN <<x>>
    ELSE IF x <= Head(lst) THEN <<x>> \o lst
         ELSE <<Head(lst)>> \o Insert(x, Tail(lst))

RECURSIVE sorted(_)
\* sorted(lst)
sorted(lst) == IF lst = <<>> THEN <<>> ELSE Insert(Head(lst), sorted(Tail(lst)))

year_columns_of(df) == sorted(YearsOf(df.columns))

\* row.get(label): the cell under the column labelled (k, y), None without one.
\* An integer label no column carries is None as well: the positional fallback
\* of Series.__getitem__ would need more than 2000 columns.
RowGet(df, row, k, y) ==
    IF \E i \in DOMAIN df.columns : df.columns[i].k = k /\ df.columns[i].y = y
    THEN row.cells[CHOOSE i \in DOMAIN df.columns :
                       df.columns[i].k = k /\ df.columns[i].y = y]
    ELSE None

\* value = row.get(year_str) or row.get(year)
YearValue(df, row, year) ==
    LET a == RowGet(df, row, "str", year) IN
    IF a.t # "none" /\ Truthy(a) THEN a ELSE RowGet(df, row, "int", year)

\* the texts float() parses, with their values
NumeralValue(tok) ==
    CASE tok = "0" -> 0 [] tok = "1" -> 1 [] tok = "2" -> 2 [] tok = "7" -> 7 [] OTHER -> -1
IsNumeral(tok) == tok \in {"0", "1", "2", "7"}

\* float(value) inside try/except, 0.0 for NaN, None and what float() rejects
ToFloat(value) ==
    IF ~notna(value) THEN 0
    ELSE IF value.t \in {"num", "flt"} THEN value.v
    ELSE LET s == strip(value.s) IN
         IF Len(s) = 1 /\ IsNumeral(s[1]) THEN NumeralValue(s[1]) ELSE 0

\* TimeSeries without the else branch: no key for a cell that is NaN or None
TimeSeriesSkipsMissing(df, row, year_columns) ==
    [year \in {y \in ToSet(year_columns) : notna(YearValue(df, row, y))} |->
        ToFloat(YearValue(df, row, year))]

\* time_series: one key per year of year_columns
TimeSeries(df, row, year_columns) ==
    [year \in ToSet(year_columns) |-> ToFloat(YearValue(df, row, year))]

RECURSIVE Pow(_, _)
Pow(b, n) == IF n = 0 THEN 1 ELSE b * Pow(b, n - 1)

\* ten thousand: percent (100) times the two decimals round(cagr, 2) keeps (100)
Scale == 10000

RECURSIVE RootSearch(_, _, _, _, _)
\* the greatest m in lo..hi with (m - 1/2)^n <= Scale^n * last / first, that is
\* m = round(Scale * (last / first) ** (1 / n))
RootSearch(first, last, n, lo, hi) ==
    IF lo >= hi THEN lo
    ELSE LET mid == (lo + hi + 1) \div 2 IN
         IF Pow(2 * mid - 1, n) <= (Pow(2 * Scale, n) * last) \div first
         THEN RootSearch(first, last, n, mid, hi)
         ELSE RootSearch(first, last, n, lo, mid - 1)

\* round(((last_value / first_value) ** (1.0 / years) - 1) * 100, 2), in hundredths
CagrFormula(first_value, last_value, years) ==
    RootSearch(first_value, last_value, years, 0,
               IF years = 1 THEN Scale * last_value ELSE 23170) - Scale

\* time_series.get(year, 0)
Get0(time_series, year) == IF year \in DOMAIN time_series THEN time_series[year] ELSE 0

\* Cagr with the last value not tested: "if first_value > 0:"
CagrLastUnchecked(year_columns, time_series) ==
    IF Len(year_columns) >= 2 /\ DOMAIN time_series # {}
    THEN LET first_year  == Min(ToSet(year_columns))
             last_year   == Max(ToSet(year_columns))
             first_value == Get0(time_series, first_year)
             last_value  == Get0(time_series, last_year)
             years       == last_year - first_year
         IN IF first_value > 0 /\ years > 0
            THEN CagrFormula(first_value, last_value, years)
            ELSE 0
    ELSE 0

\* Cagr with the span taken from the number of year columns
CagrSpanByCount(year_columns, time_series) ==
    IF Len(year_columns) >= 2 /\ DOMAIN time_series # {}
    THEN LET first_year  == Min(ToSet(year_columns))
             last_year   == Max(ToSet(year_columns))
             first_value == Get0(time_series, first_year)
             last_value  == Get0(time_series, last_year)
             years       == Len(year_columns) - 1
         IN IF first_value > 0 /\ last_value > 0 /\ last_year - first_year > 0
            THEN CagrFormula(first_value, last_value, years)
            ELSE 0
    ELSE 0

\* lines 214-225 and round(cagr, 2)
Cagr(year_columns, time_series) ==
    IF Len(year_columns) >= 2 /\ DOMAIN time_series # {}
    THEN LET first_year  == Min(ToSet(year_columns))
             last_year   == Max(ToSet(year_columns))
             first_value == Get0(time_series, first_year)
             last_value  == Get0(time_series, last_year)
             years       == last_year - first_year
         IN IF first_value > 0 /\ last_value > 0 /\ years > 0
            THEN CagrFormula(first_value, last_value, years)
            ELSE 0
    ELSE 0

RECURSIVE FirstRegionWith(_, _)
\* "for region, countries_list in countries.items(): if geography in
\* countries_list: ... break": the first region, in the dict's order, or None
FirstRegionWith(countries, geography) ==
    IF countries = <<>> THEN NoText
    ELSE IF InList(geography, Head(countries).list) THEN Text(Head(countries).region)
         ELSE FirstRegionWith(Tail(countries), geography)

\* ResolveGeography with the countries lists searched before the regions
ResolveGeographyCountriesFirst(geos, geography) ==
    IF InList(geography, geos.global)
    THEN [level |-> "global", parent |-> NoText]
    ELSE IF FirstRegionWith(geos.countries, geography).some
    THEN [level |-> "country", parent |-> FirstRegionWith(geos.countries, geography)]
    ELSE IF InList(geography, geos.regions)
    THEN [level |-> "region",
          parent |-> IF geos.global # <<>> THEN Text(geos.global[1]) ELSE NoText]
    ELSE [level |-> "country", parent |-> NoText]

\* lines 227-246: geography_level and parent_geography
ResolveGeography(geos, geography) ==
    IF InList(geography, geos.global)
    THEN [level |-> "global", parent |-> NoText]
    ELSE IF InList(geography, geos.regions)
    THEN [level |-> "region",
          parent |-> IF geos.global # <<>> THEN Text(geos.global[1]) ELSE NoText]
    ELSE [level |-> "country", parent |-> FirstRegionWith(geos.countries, geography)]

\* lines 181-259: the record of one row with a Geography
RecordOf(df, row, year_columns, geos) ==
    LET geography    == CellText(row.Geography)
        segment_type == CellText(row.L1)
        level_2      == CellText(row.L2)
        level_3      == CellText(row.L3)
        level_4      == CellText(row.L4)
        ts           == TimeSeries(df, row, year_columns)
        geo          == ResolveGeography(geos, geography.s)
    IN [geography |-> geography.s,
        geography_level |-> geo.level,
        parent_geography |-> geo.parent,
        segment_type |-> Or(segment_type, Text(<<>>)).s,
        segment |-> Or(Or(Or(level_4, level_3), level_2), segment_type),
        segment_level |-> IF Or(level_3, level_4).some /\ Or(level_3, level_4).s # <<>>
                          THEN "parent" ELSE "leaf",
        segment_hierarchy |-> [level_1 |-> Or(segment_type, Text(<<>>)).s,
                               level_2 |-> Or(level_2, Text(<<>>)).s,
                               level_3 |-> Or(level_3, Text(<<>>)).s,
                               level_4 |-> Or(level_4, Text(<<>>)).s],
        time_series |-> ts,
        cagr |-> Cagr(year_columns, ts),
        market_share |-> [num |-> 0, den |-> 1]]

RECURSIVE RecordsOf(_, _, _, _)
\* "for idx, row in df.iterrows()", rows without a Geography skipped
RecordsOf(df, rows, year_columns, geos) ==
    IF rows = <<>> THEN <<>>
    ELSE LET geography == CellText(Head(rows).Geography)
             rest == RecordsOf(df, Tail(rows), year_columns, geos)
         IN IF geography.some /\ geography.s # <<>>
            THEN <<RecordOf(df, Head(rows), year_columns, geos)>> \o rest
            ELSE rest

\* r['time_series'].get(year, 0)
TsGet(r, year) == Get0(r.time_series, year)

RECURSIVE YearTotal(_, _)
\* sum(r['time_series'].get(year, 0) for r in records)
YearTotal(records, year) ==
    IF records = <<>> THEN 0 ELSE TsGet(Head(records), year) + YearTotal(Tail(records), year)

\* the guard of both market-share passes
TotalUsable(year_total) == year_total > 0

\* record['market_share'] = year_value / year_total
FractionShare(year_value, year_total) == [num |-> year_value, den |-> year_total]

\* PercentShare without the factor 100
PercentShareUnscaled(year_value, year_total) == [num |-> year_value, den |-> year_total]

\* record['market_share'] = (year_value / year_total) * 100
PercentShare(year_value, year_total) == [num |-> year_value * 100, den |-> year_total]

\* metadata.get('base_year', 2024)
DefaultBaseYear == 2024
MetadataBaseYear(md) ==
    IF "base_year" \in DOMAIN md THEN md["base_year"] ELSE DefaultBaseYear

\* lines 263-270: the market-share pass that ends extract_data_records
ShareFractions(records, year_columns, base_year) ==
    LET year_total == YearTotal(records, base_year) IN
    IF InList(base_year, year_columns) /\ TotalUsable(year_total)
    THEN [i \in DOMAIN records |->
            [records[i] EXCEPT !.market_share = FractionShare(TsGet(records[i], base_year), year_total)]]
    ELSE records

extract_data_records(df, md, geos) ==
    LET year_columns == year_columns_of(df)
    IN ShareFractions(RecordsOf(df, df.rows, year_columns, geos),
                      year_columns, MetadataBaseYear(md))

\* calculate_market_share(records, year): the records as it leaves them
calculate_market_share(records, year) ==
    LET year_total == YearTotal(records, year) IN
    IF TotalUsable(year_total)
    THEN [i \in DOMAIN records |->
            [records[i] EXCEPT !.market_share = PercentShare(TsGet(records[i], year), year_total)]]
    ELSE records

----------------------------------------------------------------------------
(* convert_india_spices_to_json, lines 319-343: the years of the document  *)

\* all_years: the keys of every value record's time_series
AllYears(records) == UNION {DOMAIN records[i].time_series : i \in DOMAIN records}

RECURSIVE SetToSorted(_)
\* sorted(all_years)
SetToSorted(S) == IF S = {} THEN <<>> ELSE <<Min(S)>> \o SetToSorted(S \ {Min(S)})

RECURSIVE Filter(_, _)
\* [y for y in years if keep[y]]
Filter(years, keep) ==
    IF years = <<>> THEN <<>>
    ELSE IF Head(years) \in keep THEN <<Head(years)>> \o Filter(Tail(years), keep)
         ELSE Filter(Tail(years), keep)

DefaultStartYear == 2020
DefaultForecastYear == 2032
PreferredBaseYear == 2024

\* BaseYear with default=2024 for default=start_year
BaseYearDefaultPreferred(years, start_year) ==
    IF InList(PreferredBaseYear, years) THEN PreferredBaseYear
    ELSE IF {y \in ToSet(years) : y <= PreferredBaseYear} # {}
         THEN Max({y \in ToSet(years) : y <= PreferredBaseYear})
         ELSE PreferredBaseYear

\* BaseYear with min(...) for max(...)
BaseYearEarliest(years, start_year) ==
    IF InList(PreferredBaseYear, years) THEN PreferredBaseYear
    ELSE IF {y \in ToSet(years) : y <= PreferredBaseYear} # {}
         THEN Min({y \in ToSet(years) : y <= PreferredBaseYear})
         ELSE start_year

\* base_year = 2024 if 2024 in years else max([y for y in years if y <= 2024], default=start_year)
BaseYear(years, start_year) ==
    IF InList(PreferredBaseYear, years) THEN PreferredBaseYear
    ELSE IF {y \in ToSet(years) : y <= PreferredBaseYear} # {}
         THEN Max({y \in ToSet(years) : y <= PreferredBaseYear})
         ELSE start_year

YearsMetadata(records) ==
    LET years == SetToSorted(AllYears(records))
        start_year == IF years # <<>> THEN Min(ToSet(years)) ELSE DefaultStartYear
        base_year == BaseYear(years, start_year)
        forecast_year == IF years # <<>> THEN Max(ToSet(years)) ELSE DefaultForecastYear
    IN [years |-> years,
        start_year |-> start_year,
        base_year |-> base_year,
        forecast_year |-> forecast_year,
        historical_years |-> Filter(years, {y \in ToSet(years) : y <= base_year}),
        forecast_years |-> Filter(years, {y \in ToSet(years) : y > base_year})]

----------------------------------------------------------------------------
(* generate_distributors_json.py *)

\* d.update(e)
Update(d, e) == [x \in (DOMAIN d) \cup (DOMAIN e) |-> IF x \in DOMAIN e THEN e[x] ELSE d[x]]

\* a dict whose keys are the columns first..first+Len(fields)-1
Columns(first, fields) == [c \in first..(first + Len(fields) - 1) |-> fields[c - first + 1]]

base_mapping ==
    Columns(0, <<"s_no", "company_name", "year_established", "headquarters_emirate",
                 "cities_regions_covered", "ownership_type", "business_type",
                 "no_of_employees", "key_contact_person", "designation_role",
                 "email_address", "phone_whatsapp", "linkedin_profile", "website_url">>)

\* advance_mapping with the new columns appended and none moved
advance_mapping_appended ==
    Update(base_mapping,
           Columns(14, <<"turnover_scale", "core_product_categories", "specialty_focus",
                         "price_segment">>))

advance_mapping ==
    Update(base_mapping,
           Columns(8, <<"turnover_scale", "key_contact_person", "designation_role",
                        "email_address", "phone_whatsapp", "linkedin_profile",
                        "website_url", "core_product_categories", "specialty_focus",
                        "price_segment">>))

\* premium_mapping without its last column, additional_comments
premium_mapping_without_comments ==
    Update(advance_mapping,
           Columns(18, <<"key_brands_represented", "exclusive_partnerships",
                         "duration_partnerships", "retail_chains", "pharmacies",
                         "spas_salons_clinics", "ecommerce_platforms", "channel_strength",
                         "distribution_type", "emirates_served", "regional_extensions",
                         "warehouse_logistics", "delivery_storage",
                         "competitive_benchmarking">>))

premium_mapping ==
    Update(advance_mapping,
           Columns(18, <<"key_brands_represented", "exclusive_partnerships",
                         "duration_partnerships", "retail_chains", "pharmacies",
                         "spas_salons_clinics", "ecommerce_platforms", "channel_strength",
                         "distribution_type", "emirates_served", "regional_extensions",
                         "warehouse_logistics", "delivery_storage",
                         "competitive_benchmarking", "additional_comments">>))

get_module_field_mapping(module_name) ==
    IF Contains(module_name, <<"Standard">>) THEN base_mapping
    ELSE IF Contains(module_name, <<"Advance">>) THEN advance_mapping
    ELSE IF Contains(module_name, <<"Premium">>) THEN premium_mapping
    ELSE base_mapping

get_module_sections(module_name) ==
    LET adv == Contains(module_name, <<"Advance">>) \/ Contains(module_name, <<"Premium">>)
        prem == Contains(module_name, <<"Premium">>)
        company == <<"company_name", "year_established", "headquarters_emirate",
                     "cities_regions_covered", "ownership_type", "business_type",
                     "no_of_employees">>
        s1 == [s \in {"company_information", "contact_details"} |->
                 IF s = "company_information"
                 THEN (IF adv THEN Append(company, "turnover_scale") ELSE company)
                 ELSE <<"key_contact_person", "designation_role", "email_address",
                        "phone_whatsapp", "linkedin_profile", "website_url">>]
        s2 == IF adv
              THEN Put(s1, "product_portfolio",
                       <<"core_product_categories", "specialty_focus", "price_segment">>)
              ELSE s1
    IN IF prem
       THEN Put(Put(Put(Put(s2,
              "brands_distributed",
                <<"key_brands_represented", "exclusive_partnerships", "duration_partnerships">>),
              "distribution_channels",
                <<"retail_chains", "pharmacies", "spas_salons_clinics",
                  "ecommerce_platforms", "channel_strength", "distribution_type">>),
              "regional_operational_coverage",
                <<"emirates_served", "regional_extensions", "warehouse_logistics",
                  "delivery_storage">>),
              "cmi_insights", <<"competitive_benchmarking", "additional_comments">>)
       ELSE s2

header_row_idx == 4
data_start_idx == 5

\* str.isdigit(): a non-empty text of digits only
isdigit(s) == s # <<>> /\ \A i \in DOMAIN s : IsNumeral(s[i])

\* int(x) raises ValueError: x is a text that, blanks trimmed, is not all digits
IntRaises(x) == x.t = "str" /\ ~isdigit(strip(x.s))

RECURSIVE DecimalValue(_)
DecimalValue(s) ==
    IF s = <<>> THEN 0
    ELSE 10 * DecimalValue(SubSeq(s, 1, Len(s) - 1)) + NumeralValue(s[Len(s)])

\* int(x) where it does not raise
IntOf(x) == IF x.t \in {"num", "flt"} THEN x.v ELSE DecimalValue(strip(x.s))

\* the test that skips a data row: column 0 is NaN or blank
RowSkipped(row) == ~notna(row[1]) \/ strip(str(row[1])) = <<>>

\* sheet_name.lower().replace(' ', '_')
Slug(sheet_name) ==
    [i \in DOMAIN sheet_name |-> IF sheet_name[i] = SP THEN "_" ELSE lower(sheet_name[i])]

\* the value stored under a mapped column: the trimmed text, None if blank or
\* beyond the row's width
FieldValue(row, col_idx) ==
    LET value == IF col_idx < Len(row) THEN At(row, col_idx) ELSE None IN
    IF notna(value) /\ strip(str(value)) # <<>> THEN Text(strip(str(value))) ELSE NoText

\* lines 115-129: the record of a data row that is not skipped and does not raise
DistributorOf(row, sheet_name, field_mapping) ==
    [id |-> [slug |-> Slug(sheet_name), n |-> IntOf(row[1])],
     module |-> sheet_name,
     s_no |-> IF isdigit(str(row[1])) THEN [some |-> TRUE, n |-> IntOf(row[1])]
              ELSE [some |-> FALSE, n |-> 0],
     fields |-> [f \in {field_mapping[c] : c \in (DOMAIN field_mapping) \ {0}} |->
                   FieldValue(row, Max({c \in (DOMAIN field_mapping) \ {0} :
                                           field_mapping[c] = f}))]]

RECURSIVE DistributorsFrom(_, _, _, _)
\* "for idx in range(data_start_idx, len(df))"
DistributorsFrom(df, idx, sheet_name, field_mapping) ==
    IF idx >= Len(df) THEN <<>>
    ELSE LET row == At(df, idx)
             rest == DistributorsFrom(df, idx + 1, sheet_name, field_mapping)
             d == DistributorOf(row, sheet_name, field_mapping)
         IN IF RowSkipped(row) THEN rest
            ELSE IF d.fields["company_name"].some THEN <<d>> \o rest
            ELSE rest

\* extract_distributors_from_sheet raises: no such sheet (read_excel), no row 4
\* (df.iloc[4]), or a data row that is not skipped whose column 0 int() rejects
ExtractDistributorsRaises(sheet) ==
    \/ ~sheet.present
    \/ Len(sheet.df) <= header_row_idx
    \/ \E idx \in data_start_idx..(Len(sheet.df) - 1) :
          ~RowSkipped(At(sheet.df, idx)) /\ IntRaises(At(sheet.df, idx)[1])

extract_distributors_from_sheet(sheet, sheet_name) ==
    DistributorsFrom(sheet.df, data_start_idx, sheet_name,
                     get_module_field_mapping(sheet_name))

modules == << <<"Module", SP, "1", SP, "-", SP, "Standard">>,
              <<"Module", SP, "2", SP, "-", SP, "Advance">>,
              <<"Module", SP, "3", SP, "-", SP, "Premium">> >>

\* metadata.module_info[module].total_fields
total_fields(module_name) ==
    IF module_name = modules[1] THEN 14
    ELSE IF module_name = modules[2] THEN 18
    ELSE 33

----------------------------------------------------------------------------
(* The runs.  pc is the statement the run has reached:                     *)
(*   convert_india_spices_to_json.py: "main", then the steps "metadata",   *)
(*   "geography", "segments", "value", "volume", "assemble", "save";       *)
(*   generate_distributors_json.py: "modules" (the for loop, module_idx    *)
(*   the next module), "dist_save";                                        *)
(*   "done" when the script has ended.                                     *)

Absent == [present |-> FALSE, df |-> <<>>]
Sheet(df) == [present |-> TRUE, df |-> df]

NoGeographies == [global |-> <<>>, regions |-> <<>>, countries |-> <<>>, all_geographies |-> {}]

\* the sheet a step of convert_india_spices_to_json reads
SheetOf(step) ==
    CASE step = "metadata" -> workbook.Parameters
      [] step = "geography" -> workbook.Region
      [] step = "segments" -> workbook.Segmentation
      [] step = "value" -> workbook.Value
      [] step = "volume" -> workbook.Volume

ReadSteps == {"metadata", "geography", "segments", "value", "volume"}

\* __main__, line 378: Path(excel_path).exists()
MainStart ==
    /\ pc = "main"
    /\ workbook.exists
    /\ pc' = "metadata"
    /\ UNCHANGED <<workbook, output_file, console, metadata, geographies, segments,
                   value_records, volume_records, result, module_idx, share_year>>

\* __main__, lines 385-386
MainFileNotFound ==
    /\ pc = "main"
    /\ ~workbook.exists
    /\ pc' = "done"
    /\ console' = "not_found"
    /\ UNCHANGED <<workbook, output_file, metadata, geographies, segments,
                   value_records, volume_records, result, module_idx, share_year>>

\* pd.read_excel(..., sheet_name=...) raises for a sheet the workbook lacks; the
\* exception leaves convert_india_spices_to_json and is caught at lines 381-384
ReadRaises ==
    /\ pc \in ReadSteps
    /\ ~SheetOf(pc).present
    /\ pc' = "done"
    /\ console' = "error"
    /\ UNCHANGED <<workbook, output_file, metadata, geographies, segments,
                   value_records, volume_records, result, module_idx, share_year>>

\* lines 289-293
StepMetadata ==
    /\ pc = "metadata"
    /\ workbook.Parameters.present
    /\ metadata' = extract_metadata(workbook.Parameters.df)
    /\ pc' = "geography"
    /\ UNCHANGED <<workbook, output_file, console, geographies, segments,
                   value_records, volume_records, result, module_idx, share_year>>

\* lines 296-300
StepGeography ==
    /\ pc = "geography"
    /\ workbook.Region.present
    /\ geographies' = extract_geography_hierarchy(workbook.Region.df)
    /\ pc' = "segments"
    /\ UNCHANGED <<workbook, output_file, console, metadata, segments,
                   value_records, volume_records, result, module_idx, share_year>>

\* lines 303-307
StepSegments ==
    /\ pc = "segments"
    /\ workbook.Segmentation.present
    /\ segments' = extract_segment_hierarchy(workbook.Segmentation.df)
    /\ pc' = "value"
    /\ UNCHANGED <<workbook, output_file, console, metadata, geographies,
                   value_records, volume_records, result, module_idx, share_year>>

\* lines 310-312
StepValue ==
    /\ pc = "value"
    /\ workbook.Value.present
    /\ value_records' = extract_data_records(workbook.Value.df, metadata, geographies)
    /\ pc' = "volume"
    /\ UNCHANGED <<workbook, output_file, console, metadata, geographies, segments,
                   volume_records, result, module_idx, share_year>>

\* lines 315-317
StepVolume ==
    /\ pc = "volume"
    /\ workbook.Volume.present
    /\ volume_records' = extract_data_records(workbook.Volume.df, metadata, geographies)
    /\ pc' = "assemble"
    /\ UNCHANGED <<workbook, output_file, console, metadata, geographies, segments,
                   value_records, result, module_idx, share_year>>

\* lines 319-356
StepAssemble ==
    /\ pc = "assemble"
    /\ result' = [metadata |-> Update(metadata, YearsMetadata(value_records)),
                  dimensions |-> [geographies |-> geographies, segments |-> segments],
                  data |-> [value |-> [geography_segment_matrix |-> value_records],
                            volume |-> [geography_segment_matrix |-> volume_records]]]
    /\ pc' = "save"
    /\ UNCHANGED <<workbook, output_file, console, metadata, geographies, segments,
                   value_records, volume_records, module_idx, share_year>>

\* lines 359-372
StepSave ==
    /\ pc = "save"
    /\ output_file' = "written"
    /\ console' = "success"
    /\ pc' = "done"
    /\ UNCHANGED <<workbook, metadata, geographies, segments,
                   value_records, volume_records, result, module_idx, share_year>>

\* generate_distributors_json, lines 217-224: the try branch for one module
ExtractModule ==
    /\ pc = "modules"
    /\ module_idx < Len(modules)
    /\ ~ExtractDistributorsRaises(workbook.sheets[module_idx + 1])
    /\ LET module == At(modules, module_idx) IN
       result' = [data |-> Put(result.data, module,
                      extract_distributors_from_sheet(workbook.sheets[module_idx + 1], module)),
                  sections |-> Put(result.sections, module, get_module_sections(module))]
    /\ module_idx' = module_idx + 1
    /\ UNCHANGED <<pc, workbook, output_file, console, metadata, geographies, segments,
                   value_records, volume_records, share_year>>

\* lines 225-228: the except branch
ExtractModuleFails ==
    /\ pc = "modules"
    /\ module_idx < Len(modules)
    /\ ExtractDistributorsRaises(workbook.sheets[module_idx + 1])
    /\ LET module == At(modules, module_idx) IN
       result' = [data |-> Put(result.data, module, <<>>),
                  sections |-> Put(result.sections, module, EmptyDict)]
    /\ console' = "error"
    /\ module_idx' = module_idx + 1
    /\ UNCHANGED <<pc, workbook, output_file, metadata, geographies, segments,
                   value_records, volume_records, share_year>>

\* the for loop has run over every module
ModulesDone ==
    /\ pc = "modules"
    /\ module_idx = Len(modules)
    /\ pc' = "dist_save"
    /\ UNCHANGED <<workbook, output_file, console, metadata, geographies, segments,
                   value_records, volume_records, result, module_idx, share_year>>

\* DistSave that writes nothing once a module has failed
DistSaveUnlessFailed ==
    /\ pc = "dist_save"
    /\ output_file' = IF console = "error" THEN output_file ELSE "written"
    /\ pc' = "done"
    /\ UNCHANGED <<workbook, console, metadata, geographies, segments,
                   value_records, volume_records, result, module_idx, share_year>>

\* lines 230-240
DistSave ==
    /\ pc = "dist_save"
    /\ output_file' = "written"
    /\ pc' = "done"
    /\ UNCHANGED <<workbook, console, metadata, geographies, segments,
                   value_records, volume_records, result, module_idx, share_year>>

----------------------------------------------------------------------------
(* The workbooks the runs start from.  Every family varies one part of the *)
(* workbook over a bounded set and keeps the rest at a default.            *)

MaxSegRows == 3
MaxGeoRows == 1
MaxYearCols == 2
MaxValue == 2
MaxRows == 2
MaxParamRows == 1
MaxDistRows == 1

SeqsUpTo(S, n) == UNION {[1..k -> S] : k \in 0..n}

W(word) == Str(<<word>>)

\* Segmentation sheets
ExampleColumn == <<W("A"), Str(<<GT, "B">>), Str(<<GT, GT, "C">>), Str(<<GT, "D">>)>>

SegCells == {NaN, W("A"), Str(<<GT, "B">>), Str(<<GT, GT, "C">>), Str(<<GT>>),
             Str(<<SP>>), Str(<<"A", GT, "B">>)}

OneColumnGrid(header, col) ==
    <<<<W(SegmentationWord), header>>>> \o [i \in 1..Len(col) |-> <<NaN, col[i]>>]

SegHeaders == {NaN, W("Type"), W("Form"), Str(<<SP>>), W(SegmentationWord)}

SegGrids ==
    {OneColumnGrid(W("Type"), col) : col \in SeqsUpTo(SegCells, MaxSegRows) \cup {ExampleColumn}}
    \cup {<<<<NaN, h[1], h[2]>>, <<NaN, c[1], c[2]>>>> :
            h \in [1..2 -> SegHeaders],
            c \in [1..2 -> {NaN, W("A"), Str(<<GT, "B">>), W(SegmentationWord)}]}
    \cup {<<>>}

\* Region sheets
RegionHeaders1 == {W("North India"), NaN, W(India)}
RegionHeaders2 == {W("South India"), W("North India"), Str(<<SP, "South India", SP>>)}
RegionCells1 == {NaN, W("Punjab"), W(India)}
RegionCells2 == {NaN, W("Punjab"), W("North India")}

RegionGrids ==
    {<<<<W(India), h1, h2>>>> \o [i \in 1..Len(rows) |-> <<NaN, rows[i][1], rows[i][2]>>] :
        h1 \in RegionHeaders1, h2 \in RegionHeaders2,
        rows \in SeqsUpTo(RegionCells1 \X RegionCells2, MaxGeoRows)}
    \cup {<<>>}

DefaultRegion ==
    <<<<W(India), W("North India"), W("South India")>>,
      <<NaN, W("Punjab"), W("Kerala")>>>>

\* Master sheets
IntCol(y) == [k |-> "int", y |-> y]
StrCol(y) == [k |-> "str", y |-> y]
TextCol == [k |-> "text", y |-> 0]

Row(g, l1, l2, l3, l4, cells) ==
    [Geography |-> g, L1 |-> l1, L2 |-> l2, L3 |-> l3, L4 |-> l4, cells |-> cells]

PlainRow(g, cells) == Row(g, W("Type"), W("A"), NaN, NaN, cells)

\* the headers a Master sheet may carry besides the named ones; pandas renames
\* a repeated header, so no two columns carry the same one
Headers == {IntCol(2023), IntCol(2024), IntCol(2025), StrCol(2023), IntCol(1999), TextCol}

HeaderSeqs == {h \in SeqsUpTo(Headers, MaxYearCols) :
                 \A i, j \in DOMAIN h : i # j => h[i] # h[j]}

Numbers == {Num(n) : n \in -1..MaxValue}

YearCells == Numbers \cup {NaN, W("n/a"), W("2"), Str(<<SP>>), Str(<<>>)}

GeographyCells == {W(India), W("North India"), W("South India"), W("Punjab"),
                   W("Atlantis"), Str(<<SP, "Punjab">>), NaN, Str(<<SP>>)}

\* the cells a year column is filled with when the headers vary
FewCells == {NaN, Num(1), Num(MaxValue)}

MasterSheets ==
    \* one row, any headers, a few cells
    {[columns |-> h, rows |-> <<PlainRow(W(India), c)>>] :
        h \in HeaderSeqs, c \in [1..MaxYearCols -> FewCells]}
    \cup
    \* one row, any cells, under two year columns, two headers of the same year,
    \* or a single year column
    {[columns |-> h, rows |-> <<PlainRow(W(India), c)>>] :
        h \in {<<IntCol(2023), IntCol(2025)>>, <<StrCol(2023), IntCol(2023)>>},
        c \in [1..2 -> YearCells]}
    \cup
    {[columns |-> <<StrCol(2024)>>, rows |-> <<PlainRow(W(India), <<c>>)>>] : c \in YearCells}
    \cup
    \* several rows of numbers under two year columns
    {[columns |-> h, rows |-> [i \in DOMAIN g |-> PlainRow(W("Punjab"), <<g[i], Num(1)>>)]] :
        h \in {<<IntCol(2024), IntCol(2025)>>, <<IntCol(2023), IntCol(2025)>>,
               <<IntCol(2022), IntCol(2023)>>},
        g \in SeqsUpTo(Numbers, MaxRows)}
    \cup
    {[columns |-> <<IntCol(2023), IntCol(2024)>>,
      rows |-> [i \in DOMAIN g |-> PlainRow(W("Punjab"), <<Num(1), g[i]>>)]] :
        g \in SeqsUpTo(Numbers, MaxRows)}

\* the cells of the four segment-level columns
LevelWord == <<"Whole", "Pepper", "Black", "Organic">>
LevelCells(i) == {NaN, Str(<<SP>>), W(LevelWord[i])}

\* one row under one year column, the segment levels filled or not
LevelSheets ==
    {[columns |-> <<IntCol(2024)>>,
      rows |-> <<Row(W(India), l1, l2, l3, l4, <<Num(1)>>)>>] :
        l1 \in LevelCells(1), l2 \in LevelCells(2), l3 \in LevelCells(3), l4 \in LevelCells(4)}

DefaultMaster ==
    [columns |-> <<IntCol(2023), IntCol(2024)>>,
     rows |-> <<PlainRow(W(India), <<Num(2), Num(2)>>),
                PlainRow(W("North India"), <<Num(1), Num(2)>>),
                PlainRow(W("Punjab"), <<Num(1), Num(1)>>)>>]

\* Parameters sheets
ParamLabels == {NaN, Str(<<"Report", SP, "Title">>), Str(<<"Value", SP, "Currency">>),
                W("Value"), W("Volume"), Str(<<"Volume", SP, "Unit">>), W("Notes"),
                Str(<<"Value", SP, "Unit">>)}
ParamValues == {NaN, W("Yes"), W("No"), W("USD"), Num(0)}

ParamRows == {<<l, v>> : l \in ParamLabels, v \in ParamValues} \cup {<<l>> : l \in ParamLabels}

DefaultParameters ==
    <<<<Str(<<"Report", SP, "Title">>), W("India Spices Market")>>,
      <<Str(<<"Value", SP, "Currency">>), W("INR")>>>>

DefaultWorkbook ==
    [script |-> "convert",
     exists |-> TRUE,
     Parameters |-> Sheet(DefaultParameters),
     Region |-> Sheet(DefaultRegion),
     Segmentation |-> Sheet(OneColumnGrid(W("Type"), ExampleColumn)),
     Value |-> Sheet(DefaultMaster),
     Volume |-> Sheet(DefaultMaster)]

\* the workbooks of the convert runs
IsConvertWorkbook(w) ==
    \/ \E g \in SegGrids : w = [DefaultWorkbook EXCEPT !.Segmentation = Sheet(g)]
    \/ \E r \in RegionGrids, g \in GeographyCells :
          w = [DefaultWorkbook EXCEPT !.Region = Sheet(r),
                                      !.Value = Sheet([columns |-> <<IntCol(2024)>>,
                                                       rows |-> <<PlainRow(g, <<Num(1)>>)>>])]
    \/ \E m \in MasterSheets : w = [DefaultWorkbook EXCEPT !.Value = Sheet(m)]
    \/ \E m \in LevelSheets : w = [DefaultWorkbook EXCEPT !.Value = Sheet(m)]
    \/ \E q \in SeqsUpTo(ParamRows, MaxParamRows) :
          w = [DefaultWorkbook EXCEPT !.Parameters = Sheet(q)]
    \/ \E s \in {"Parameters", "Region", "Segmentation", "Value", "Volume"} :
          w = [DefaultWorkbook EXCEPT ![s] = Absent]
    \/ w = [DefaultWorkbook EXCEPT !.exists = FALSE]

\* the years a caller may pass to calculate_market_share
ShareYears == {1999, 2023, 2024, 2025}

\* Distributor sheets: rows 0..4 are titles and headers, data rows follow
DistFirstCells == {NaN, Num(1), Flt(2), W("7"), W("Total"), Str(<<SP>>)}
DistNameCells == {NaN, W("Acme"), Str(<<SP, "Acme", SP>>), Str(<<SP>>)}
DistWidths == {2, 14}

DistRow(first, name, width) ==
    [c \in 1..width |-> IF c = 1 THEN first ELSE IF c = 2 THEN name ELSE W("xx")]

DistSheets ==
    {Sheet([i \in 1..(data_start_idx + Len(rows)) |->
              IF i <= data_start_idx THEN DistRow(W("S.No."), W("COMPANY"), w)
              ELSE DistRow(rows[i - data_start_idx][1], rows[i - data_start_idx][2], w)]) :
        w \in DistWidths, rows \in SeqsUpTo(DistFirstCells \X DistNameCells, MaxDistRows)}
    \cup {Sheet([i \in 1..3 |-> DistRow(W("S.No."), W("COMPANY"), 2)]), Absent}

DefaultDistSheet ==
    Sheet([i \in 1..(data_start_idx + 1) |->
             IF i <= data_start_idx THEN DistRow(W("S.No."), W("COMPANY"), 33)
             ELSE DistRow(Num(1), W("Acme"), 33)])

\* the workbooks of the distributors runs
IsDistWorkbook(w) ==
    \E k \in 1..3, s \in DistSheets :
        w = [script |-> "distributors",
             sheets |-> [m \in 1..3 |-> IF m = k THEN s ELSE DefaultDistSheet]]

\* the runs that find an output file of an earlier run
OverOldOutput(w) ==
    IF w.script = "convert"
    THEN /\ w.Parameters = DefaultWorkbook.Parameters
         /\ w.Region = DefaultWorkbook.Region
         /\ w.Segmentation = DefaultWorkbook.Segmentation
         /\ w.Value \in {Absent, Sheet(DefaultMaster)}
    ELSE w.sheets[1] = DefaultDistSheet /\ w.sheets[2] = DefaultDistSheet

InitConvert ==
    /\ pc = "main"
    /\ IsConvertWorkbook(workbook)
    /\ result = EmptyDict

InitDistributors ==
    /\ pc = "modules"
    /\ IsDistWorkbook(workbook)
    /\ result = [data |-> EmptyDict, sections |-> EmptyDict]

Init ==
    /\ InitConvert \/ InitDistributors
    /\ output_file \in {"absent", "old"}
    /\ output_file = "old" => OverOldOutput(workbook)
    /\ console = ""
    /\ metadata = EmptyDict
    /\ geographies = NoGeographies
    /\ segments = EmptyDict
    /\ value_records = <<>>
    /\ volume_records = <<>>
    /\ module_idx = 0
    /\ share_year = 0

Next ==
    \/ MainStart
    \/ MainFileNotFound
    \/ ReadRaises
    \/ StepMetadata
    \/ StepGeography
    \/ StepSegments
    \/ StepValue
    \/ StepVolume
    \/ StepAssemble
    \/ StepSave
    \/ ExtractModule
    \/ ExtractModuleFails
    \/ ModulesDone
    \/ DistSave

Spec == Init /\ [][Next]_vars

\* a caller that holds the records of a finished conversion calls
\* calculate_market_share(value_records, year)
CallCalculateMarketShare ==
    /\ pc = "done"
    /\ console = "success"
    /\ workbook.script = "convert"
    /\ \E year \in ShareYears :
          /\ value_records' = calculate_market_share(value_records, year)
          /\ share_year' = year
    /\ UNCHANGED <<pc, workbook, output_file, console, metadata, geographies, segments,
                   volume_records, result, module_idx>>

NextLib == Next \/ CallCalculateMarketShare

SpecLib == Init /\ [][NextLib]_vars

----------------------------------------------------------------------------
(* Segment hierarchy reconstruction *)

\* the run has extracted the segment hierarchy
SegmentsExtracted ==
    /\ workbook.script = "convert"
    /\ pc \in {"value", "volume", "assemble", "save"} \/ (pc = "done" /\ console = "success")

SegDf == workbook.Segmentation.df

\* the text of a cell, blanks trimmed
CellStr(df, r, c) == strip(str(iloc(df, r, c)))

\* the text of a cell without its markers
CleanLabel(df, r, c) == strip(LStrip(CellStr(df, r, c), GT))

\* the marker count of a cell
Markers(df, r, c) == count(CellStr(df, r, c), GT)

\* row r of column c holds a label
IsLabel(df, r, c) ==
    /\ notna(iloc(df, r, c))
    /\ ~StartsWithSegmentation(CellStr(df, r, c))
    /\ CleanLabel(df, r, c) # <<>>

\* the rows above r whose cell is not empty and has fewer markers than row r
Shallower(df, r, c) ==
    {q \in 0..(r - 1) : notna(iloc(df, q, c)) /\ Markers(df, q, c) < Markers(df, r, c)}

\* row r holds a label of depth > 0 that has such a row above it
IsChild(df, r, c) ==
    IsLabel(df, r, c) /\ Markers(df, r, c) > 0 /\ Shallower(df, r, c) # {}

\* the marker-stripped text of the nearest such row
ParentLabel(df, r, c) == CleanLabel(df, Max(Shallower(df, r, c)), c)

RECURSIVE LabelsInRowOrder(_, _, _)
\* the clean labels of the rows in rows, by ascending row
LabelsInRowOrder(df, c, rows) ==
    IF rows = {} THEN <<>>
    ELSE <<CleanLabel(df, Min(rows), c)>> \o LabelsInRowOrder(df, c, rows \ {Min(rows)})

\* the hierarchy that attaches every child row of column c to its parent label,
\* the parents being those in the set parents
HierarchyOver(df, c, parents) ==
    [p \in parents |->
        LabelsInRowOrder(df, c, {r \in 1..(Len(df) - 1) : IsChild(df, r, c) /\ ParentLabel(df, r, c) = p})]

ChildRows(df, c) == {r \in 1..(Len(df) - 1) : IsChild(df, r, c)}

\* every child row is attached, whatever its parent label
FullHierarchy(df, c) ==
    HierarchyOver(df, c, {ParentLabel(df, r, c) : r \in ChildRows(df, c)})

\* child rows whose parent label is empty are attached to nothing
NonEmptyParentHierarchy(df, c) ==
    HierarchyOver(df, c, {ParentLabel(df, r, c) : r \in ChildRows(df, c)} \ {<<>>})

ExampleGrid == OneColumnGrid(W("Type"), ExampleColumn)

ExampleEntry ==
    [type |-> "hierarchical",
     items |-> {<<"A">>, <<"B">>, <<"C">>, <<"D">>},
     hierarchy |-> [p \in {<<"A">>, <<"B">>} |->
                      IF p = <<"A">> THEN << <<"B">>, <<"D">> >> ELSE << <<"C">> >>]]

\* C1 as stated: in every segment-type column each label of depth d > 0 is
\* appended, in row order, to hierarchy[p], p being the marker-stripped text of
\* the nearest earlier non-empty cell of the column with fewer than d markers;
\* the column A, >B, >>C, >D yields {A: [B, D], B: [C]}, items {A, B, C, D},
\* type hierarchical.
C1_AsStated ==
    SegmentsExtracted =>
        /\ \A name \in DOMAIN segments :
              \E c \in 1..(Len(At(SegDf, 0)) - 1) :
                  segments[name].hierarchy = FullHierarchy(SegDf, c)
        /\ SegDf = ExampleGrid => segments[<<"Type">>] = ExampleEntry

\* C1 amended: as C1, for the labels whose p is not the empty text; a label
\* whose nearest shallower cell holds nothing but markers or blanks is appended
\* to no list.
C1_ParentAttachment ==
    SegmentsExtracted =>
        /\ \A name \in DOMAIN segments :
              \E c \in 1..(Len(At(SegDf, 0)) - 1) :
                  segments[name].hierarchy = NonEmptyParentHierarchy(SegDf, c)
        /\ SegDf = ExampleGrid => segments[<<"Type">>] = ExampleEntry

\* the example column has been extracted
C1_Witness ==
    /\ SegmentsExtracted
    /\ SegDf = ExampleGrid
    /\ segments[<<"Type">>].hierarchy[<<"A">>] = << <<"B">>, <<"D">> >>

----------------------------------------------------------------------------
(* Data records *)

\* the run has extracted the value records
ValueExtracted ==
    /\ workbook.script = "convert"
    /\ pc \in {"volume", "assemble", "save"} \/ (pc = "done" /\ console = "success")

\* the run has extracted the volume records as well
VolumeExtracted ==
    /\ workbook.script = "convert"
    /\ pc \in {"assemble", "save"} \/ (pc = "done" /\ console = "success")

\* every record extracted so far
ExtractedRecords ==
    (IF ValueExtracted THEN ToSet(value_records) ELSE {})
    \cup (IF VolumeExtracted THEN ToSet(volume_records) ELSE {})

\* the regions whose country list holds the name g
RegionsListing(g) ==
    {geographies.countries[i].region :
        i \in {j \in DOMAIN geographies.countries : InList(g, geographies.countries[j].list)}}

\* C2: a record's geography resolves to global (no parent) if it is the global
\* name; else to region (parent: the global name) if it is a region; else to
\* country with a region listing it as parent; else to country without parent.
C2_GeographyResolution ==
    \A r \in ExtractedRecords :
        IF r.geography = <<India>>
        THEN r.geography_level = "global" /\ ~r.parent_geography.some
        ELSE IF InList(r.geography, geographies.regions)
        THEN r.geography_level = "region" /\ r.parent_geography = Text(<<India>>)
        ELSE IF RegionsListing(r.geography) # {}
        THEN /\ r.geography_level = "country"
             /\ r.parent_geography.some
             /\ r.parent_geography.s \in RegionsListing(r.geography)
        ELSE r.geography_level = "country" /\ ~r.parent_geography.some

\* a record whose geography is a region and is also listed as a country
C2_Witness ==
    \E r \in ExtractedRecords :
        /\ InList(r.geography, geographies.regions)
        /\ RegionsListing(r.geography) # {}
        /\ r.geography_level = "region"

\* the year columns a Master sheet is detected to have: the headers that read as
\* an integer from 2000 to 2100
DetectedColumns(df) ==
    {i \in DOMAIN df.columns :
        df.columns[i].k \in {"int", "str"} /\ df.columns[i].y \in 2000..2100}

DetectedYears(df) == {df.columns[i].y : i \in DetectedColumns(df)}

ValueDf == workbook.Value.df

\* C3: cagr is 0.0 when there are fewer than two year columns, or the first-year
\* or the last-year value is <= 0, or the first and the last year are the same
\* (duplicated year headers).
C3_CagrZero ==
    ValueExtracted =>
        \A i \in DOMAIN value_records :
            LET r == value_records[i]
                Y == DetectedYears(ValueDf)
            IN (\/ Cardinality(DetectedColumns(ValueDf)) < 2
                \/ r.time_series[Min(Y)] <= 0
                \/ r.time_series[Max(Y)] <= 0
                \/ Min(Y) = Max(Y))
               => r.cagr = 0

\* two year columns with the same year and positive values
C3_Witness ==
    /\ ValueExtracted
    /\ \E i \in DOMAIN value_records :
          /\ Cardinality(DetectedColumns(ValueDf)) = 2
          /\ Cardinality(DetectedYears(ValueDf)) = 1
          /\ \A y \in DetectedYears(ValueDf) : value_records[i].time_series[y] > 0
          /\ value_records[i].cagr = 0

\* the sum of the numerators of the records' shares
RECURSIVE ShareNumerators(_)
ShareNumerators(records) ==
    IF records = <<>> THEN 0
    ELSE Head(records).market_share.num + ShareNumerators(Tail(records))

\* every share is factor * value_at_year / total, and the shares sum to factor
SharesAre(records, year, factor) ==
    LET total == YearTotal(records, year) IN
    /\ \A i \in DOMAIN records :
          records[i].market_share.num * total
              = factor * TsGet(records[i], year) * records[i].market_share.den
    /\ \A i \in DOMAIN records : records[i].market_share.den = total
    /\ ShareNumerators(records) = factor * total

\* the year the fractional pass of extract_data_records uses
ChosenYear == MetadataBaseYear(metadata)

\* C4 as stated: whenever the total at the chosen year is non-zero, the shares
\* are value / total and sum to 1 after extract_data_records, and are
\* 100 * value / total and sum to 100 after calculate_market_share.
C4_AsStated ==
    ValueExtracted =>
        IF share_year = 0
        THEN YearTotal(value_records, ChosenYear) # 0 => SharesAre(value_records, ChosenYear, 1)
        ELSE YearTotal(value_records, share_year) # 0 => SharesAre(value_records, share_year, 100)

\* C4 amended: the same for every positive total.
C4_PositiveTotal ==
    ValueExtracted =>
        IF share_year = 0
        THEN YearTotal(value_records, ChosenYear) > 0 => SharesAre(value_records, ChosenYear, 1)
        ELSE YearTotal(value_records, share_year) > 0 => SharesAre(value_records, share_year, 100)

\* calculate_market_share has run on two records with a positive total
C4_Witness ==
    /\ ValueExtracted
    /\ share_year # 0
    /\ Len(value_records) = 2
    /\ YearTotal(value_records, share_year) > 0
    /\ \A i \in DOMAIN value_records : TsGet(value_records[i], share_year) > 0
    /\ ShareNumerators(value_records) = 100 * YearTotal(value_records, share_year)

\* a cell float() yields no number for: missing, blank or unparsable
Unusable(cell) ==
    \/ ~notna(cell)
    \/ cell.t = "str" /\ (strip(cell.s) = <<>> \/ ~IsNumeral(strip(cell.s)[1]))

\* the rows of the value sheet that carry a Geography, in order
RECURSIVE RowsWithGeography(_)
RowsWithGeography(rows) ==
    IF rows = <<>> THEN <<>>
    ELSE IF notna(Head(rows).Geography) /\ strip(str(Head(rows).Geography)) # <<>>
         THEN <<Head(rows)>> \o RowsWithGeography(Tail(rows))
         ELSE RowsWithGeography(Tail(rows))

IsRoundedRoot(k, first, last, n) ==
    /\ Pow(2 * k - 1, n) * first <= Pow(2 * Scale, n) * last
    /\ Pow(2 * Scale, n) * last < Pow(2 * k + 1, n) * first

\* C10: with at least two year columns, last_year > first_year and both end
\* values positive, cagr is ((last / first) ** (1 / (last_year - first_year)) - 1)
\* * 100 rounded to two decimals, first_year and last_year being the least and
\* the greatest year column.
C10_CagrFormula ==
    ValueExtracted =>
        \A i \in DOMAIN value_records :
            LET r == value_records[i]
                Y == DetectedYears(ValueDf)
            IN (/\ Cardinality(DetectedColumns(ValueDf)) >= 2
                /\ Max(Y) > Min(Y)
                /\ r.time_series[Min(Y)] > 0
                /\ r.time_series[Max(Y)] > 0)
               => IsRoundedRoot(r.cagr + Scale, r.time_series[Min(Y)],
                                r.time_series[Max(Y)], Max(Y) - Min(Y))

\* 1 in 2023 and 2 in 2025: 41.42 percent a year
C10_Witness ==
    /\ ValueExtracted
    /\ \E i \in DOMAIN value_records :
          /\ DetectedYears(ValueDf) = {2023, 2025}
          /\ value_records[i].time_series[2023] = 1
          /\ value_records[i].time_series[2025] = 2
          /\ value_records[i].cagr = 4142

----------------------------------------------------------------------------
(* The assembled document *)

Assembled ==
    /\ workbook.script = "convert"
    /\ pc = "save" \/ (pc = "done" /\ console = "success")

\* s lists the members of S in ascending order
IsSortedListOf(s, S) ==
    /\ ToSet(s) = S
    /\ \A i, j \in DOMAIN s : i < j => s[i] < s[j]

\* C6: years is the sorted set of the value records' years; start_year and
\* forecast_year are its least and greatest member; base_year is 2024 if
\* present, else the greatest year <= 2024, else start_year; historical_years
\* are the years <= base_year and forecast_years the years > base_year.
C6_YearsMetadata ==
    Assembled =>
        LET Y == UNION {DOMAIN value_records[i].time_series : i \in DOMAIN value_records}
            m == result.metadata
        IN Y # {} =>
            /\ IsSortedListOf(m["years"], Y)
            /\ m["start_year"] = Min(Y)
            /\ m["forecast_year"] = Max(Y)
            /\ m["base_year"] \in Y
            /\ IF 2024 \in Y THEN m["base_year"] = 2024
               ELSE IF \E y \in Y : y <= 2024
               THEN m["base_year"] <= 2024 /\ \A y \in Y : y <= 2024 => y <= m["base_year"]
               ELSE m["base_year"] = Min(Y)
            /\ IsSortedListOf(m["historical_years"], {y \in Y : y <= m["base_year"]})
            /\ IsSortedListOf(m["forecast_years"], {y \in Y : y > m["base_year"]})

\* 2024 is no year column and two years precede it
C6_Witness ==
    /\ Assembled
    /\ result.metadata["years"] = <<2022, 2023>>
    /\ result.metadata["base_year"] = 2023

----------------------------------------------------------------------------
(* Runs and their output file *)

\* an extraction step of the convert run raises: the workbook lacks its sheet
ConvertStepFails ==
    \E s \in {"Parameters", "Region", "Segmentation", "Value", "Volume"} :
        ~workbook[s].present

\* the extraction of some module of the distributors run raises
SomeModuleFails ==
    \E m \in DOMAIN modules : ExtractDistributorsRaises(workbook.sheets[m])

\* some extraction step of the run raises
ExtractionFails ==
    IF workbook.script = "convert" THEN workbook.exists /\ ConvertStepFails
    ELSE SomeModuleFails

\* C7 as stated: in both pipelines the output file is written only if every
\* extraction step completed without an exception; a run with a failing step
\* ends with an error printed and the file neither written nor overwritten.
C7_AsStated ==
    /\ output_file = "written" => ~ExtractionFails
    /\ (pc = "done" /\ ExtractionFails) => (console = "error" /\ output_file # "written")

\* C7 amended: convert_india_spices_to_json is all-or-nothing as stated;
\* generate_distributors_json writes its file at the end of every run, a module
\* whose extraction failed being stored with no distributors and no sections,
\* and the error printed.
C7_ConvertAllOrNothing ==
    /\ workbook.script = "convert" =>
          /\ output_file = "written" => (workbook.exists /\ ~ConvertStepFails)
          /\ (pc = "done" /\ workbook.exists /\ ConvertStepFails)
                => (console = "error" /\ output_file # "written")
    /\ (workbook.script = "distributors" /\ pc = "done") =>
          /\ output_file = "written"
          /\ SomeModuleFails => console = "error"
          /\ \A m \in DOMAIN modules :
                ExtractDistributorsRaises(workbook.sheets[m])
                    => /\ result.data[modules[m]] = <<>>
                       /\ result.sections[modules[m]] = EmptyDict

\* a convert run that ended on a missing sheet, the old file left as it was
C7_Witness ==
    /\ workbook.script = "convert"
    /\ pc = "done"
    /\ ~workbook.Value.present
    /\ console = "error"
    /\ output_file = "old"

\* C8: extract_metadata has no failure modes: with the Parameters sheet absent
\* or its rows malformed the call returns the metadata record, the affected
\* fields at their defaults.
C8_NoFailureModes ==
    (workbook.script = "convert" /\ workbook.exists /\ pc \notin {"main", "metadata"}) =>
        /\ DOMAIN metadata = {"market_name", "market_type", "industry", "currency",
                              "value_unit", "volume_unit", "has_value", "has_volume"}
        /\ ~workbook.Parameters.present => metadata = MetadataDefaults(EmptyDict)

----------------------------------------------------------------------------
(* The distributor tables *)

Standard == get_module_field_mapping(modules[1])
Advance  == get_module_field_mapping(modules[2])
Premium  == get_module_field_mapping(modules[3])

\* the columns both tables map, to different fields
Differing(a, b) == {c \in (DOMAIN a) \cap (DOMAIN b) : a[c] # b[c]}

\* C9 as stated: the tables a distributors run uses are additive: Premium agrees
\* with Advance on every column Advance maps, and Advance with Standard on every
\* column Standard maps except columns 8 and 9.
C9_AsStated ==
    workbook.script = "distributors" =>
    /\ DOMAIN Advance \subseteq DOMAIN Premium
    /\ DOMAIN Standard \subseteq DOMAIN Advance
    /\ Differing(Premium, Advance) = {}
    /\ Differing(Advance, Standard) = {8, 9}

\* C9 amended: ... and Advance with Standard on every column Standard maps
\* except columns 8 to 13, whose fields Advance moves one column to the right.
C9_TiersAdditive ==
    workbook.script = "distributors" =>
    /\ DOMAIN Advance \subseteq DOMAIN Premium
    /\ DOMAIN Standard \subseteq DOMAIN Advance
    /\ Differing(Premium, Advance) = {}
    /\ Differing(Advance, Standard) = 8..13
    /\ \A c \in 8..13 : Advance[c + 1] = Standard[c]

\* a distributor of the Advance sheet has been extracted with its shifted columns
C9_Witness ==
    /\ workbook.script = "distributors"
    /\ pc = "done"
    /\ Len(result.data[modules[1]]) > 0
    /\ Len(result.data[modules[2]]) > 0
    /\ "turnover_scale" \in DOMAIN result.data[modules[2]][1].fields
    /\ "turnover_scale" \notin DOMAIN result.data[modules[1]][1].fields

----------------------------------------------------------------------------
(* Labels without an ancestor among the data rows *)

\* the column whose labels extract_segment_hierarchy stores under the type name
SegColumnOf(df, name) ==
    SegColIdx(Max({i \in 0..(Len(SegmentTypes(df)) - 1) : At(SegmentTypes(df), i) = name}))

\* the data rows above r whose cell is not empty and has fewer markers than row r
ShallowerData(df, r, c) == Shallower(df, r, c) \ {0}

\* row r holds a label of depth > 0 with no such data row above it
IsOrphan(df, r, c) ==
    IsLabel(df, r, c) /\ Markers(df, r, c) > 0 /\ ShallowerData(df, r, c) = {}

\* the labels a dict of lists holds, keys and members
HierarchyLabels(h) == (DOMAIN h) \cup UNION {ToSet(h[p]) : p \in DOMAIN h}

\* the number of members of all the lists of a dict of lists
RECURSIVE HierarchySize(_)
HierarchySize(h) ==
    IF DOMAIN h = {} THEN 0
    ELSE LET p == CHOOSE q \in DOMAIN h : TRUE
         IN Len(h[p]) + HierarchySize([q \in (DOMAIN h) \ {p} |-> h[q]])

\* C11: a label of depth > 0 with no earlier data row (rows 1..M of its column)
\* of smaller marker count is appended to no hierarchy list and creates no key,
\* so the lists hold no more members than there are labels with such a row; its
\* clean label is in items all the same.
C11_OrphanDropped ==
    SegmentsExtracted =>
        \A name \in DOMAIN segments :
            LET c == SegColumnOf(SegDf, name)
                rows == 1..(Len(SegDf) - 1)
            IN /\ \A r \in rows :
                     IsOrphan(SegDf, r, c) => CleanLabel(SegDf, r, c) \in segments[name].items
               /\ HierarchySize(segments[name].hierarchy)
                     <= Cardinality({r \in rows : IsLabel(SegDf, r, c) /\ Markers(SegDf, r, c) > 0
                                                    /\ ShallowerData(SegDf, r, c) # {}})
               /\ (\A r \in rows : IsLabel(SegDf, r, c) => IsOrphan(SegDf, r, c))
                     => segments[name].hierarchy = EmptyDict

----------------------------------------------------------------------------
(* Depth as the number of leading markers *)

\* the number of markers a text begins with
LeadingMarkers(s) == Len(s) - Len(LStrip(s, GT))

LeadMarkers(df, r, c) == LeadingMarkers(CellStr(df, r, c))

\* the rows above r whose cell is not empty and begins with fewer markers
ShallowerLead(df, r, c) ==
    {q \in 0..(r - 1) : notna(iloc(df, q, c)) /\ LeadMarkers(df, q, c) < LeadMarkers(df, r, c)}

\* the rows attached to a parent when depth is the number of leading markers
LeadChildRows(df, c) ==
    {r \in 1..(Len(df) - 1) :
        /\ IsLabel(df, r, c)
        /\ LeadMarkers(df, r, c) > 0
        /\ ShallowerLead(df, r, c) # {}
        /\ CleanLabel(df, Max(ShallowerLead(df, r, c)), c) # <<>>}

LeadHierarchy(df, c) ==
    [p \in {CleanLabel(df, Max(ShallowerLead(df, r, c)), c) : r \in LeadChildRows(df, c)} |->
        LabelsInRowOrder(df, c, {r \in LeadChildRows(df, c) :
                                    CleanLabel(df, Max(ShallowerLead(df, r, c)), c) = p})]

\* C12: the depth of a cell is the number of markers its text begins with and
\* the clean label is the text without that prefix: items holds the clean
\* labels, the hierarchy is the one those depths give, and a label that begins
\* with no marker, whatever markers follow in its text, is a member of no list.
C12_LeadingMarkers ==
    SegmentsExtracted =>
        \A name \in DOMAIN segments :
            LET c == SegColumnOf(SegDf, name)
                rows == 1..(Len(SegDf) - 1)
            IN /\ segments[name].items = {CleanLabel(SegDf, r, c) : r \in {q \in rows : IsLabel(SegDf, q, c)}}
               /\ segments[name].hierarchy = LeadHierarchy(SegDf, c)
               /\ \A r \in rows :
                     (/\ IsLabel(SegDf, r, c)
                      /\ \A q \in rows :
                            (IsLabel(SegDf, q, c) /\ CleanLabel(SegDf, q, c) = CleanLabel(SegDf, r, c))
                                => LeadMarkers(SegDf, q, c) = 0)
                     => \A p \in DOMAIN segments[name].hierarchy :
                            ~InList(CleanLabel(SegDf, r, c), segments[name].hierarchy[p])

----------------------------------------------------------------------------
(* The geography hierarchy *)

\* the run has extracted the geography hierarchy
GeographyExtracted ==
    /\ workbook.script = "convert"
    /\ pc \in {"segments", "value", "volume", "assemble", "save"}
          \/ (pc = "done" /\ console = "success")

RegionDf == workbook.Region.df

\* the cell (r, c) of the Region sheet holds a name
HoldsName(df, r, c) == notna(iloc(df, r, c)) /\ CellStr(df, r, c) # <<>>

RECURSIVE NamesInOrder(_, _, _)
\* the names of row 0 in the columns c..N other than the root name, in column order
NamesInOrder(df, c, root) ==
    IF c >= Len(At(df, 0)) THEN <<>>
    ELSE IF HoldsName(df, 0, c) /\ CellStr(df, 0, c) # root
         THEN <<CellStr(df, 0, c)>> \o NamesInOrder(df, c + 1, root)
         ELSE NamesInOrder(df, c + 1, root)

\* the cells of the data rows that lie in a column headed by region and hold a
\* name other than the root name
MemberCells(df, region, root) ==
    {rc \in (1..(Len(df) - 1)) \X (1..(Len(At(df, 0)) - 1)) :
        /\ HoldsName(df, 0, rc[2]) /\ CellStr(df, 0, rc[2]) = region
        /\ HoldsName(df, rc[1], rc[2]) /\ CellStr(df, rc[1], rc[2]) # root}

\* the place of a cell in the order the sheet is read: row by row
ReadOrder(df, rc) == rc[1] * Len(At(df, 0)) + rc[2]

\* the place of the first of the cells that hold name
FirstPlace(df, cells, name) ==
    Min({ReadOrder(df, rc) : rc \in {x \in cells : CellStr(df, x[1], x[2]) = name}})

\* lst lists the names of the cells once each, by first occurrence
IsFirstOccurrenceList(df, lst, cells) ==
    /\ ToSet(lst) = {CellStr(df, rc[1], rc[2]) : rc \in cells}
    /\ \A i, j \in DOMAIN lst :
          i < j => FirstPlace(df, cells, lst[i]) < FirstPlace(df, cells, lst[j])

\* the names of all the countries lists
ListedNames == UNION {ToSet(geographies.countries[i].list) : i \in DOMAIN geographies.countries}

\* C13: regions is the ordered list of the row-0 names of columns 1..N other
\* than 'India'; countries[region] is, for every region, the first-occurrence
\* list without repetition of the non-empty names other than 'India' in the
\* region's column, rows 1..M; 'India' is in no countries list.
C13_RegionsAndCountries ==
    (GeographyExtracted /\ RegionDf # <<>>) =>
        /\ geographies.regions = NamesInOrder(RegionDf, 1, <<India>>)
        /\ \A i \in DOMAIN geographies.regions :
              IsFirstOccurrenceList(RegionDf,
                                    DictGet(geographies.countries, geographies.regions[i]),
                                    MemberCells(RegionDf, geographies.regions[i], <<India>>))
        /\ \A i \in DOMAIN geographies.countries :
              InList(geographies.countries[i].region, geographies.regions)
        /\ <<India>> \notin ListedNames

----------------------------------------------------------------------------
(* Names listed under several regions *)

\* the regions in whose columns the sheet holds name, rows 1..M
RegionsHolding(df, name) ==
    {CellStr(df, 0, c) :
        c \in {d \in 1..(Len(At(df, 0)) - 1) :
                 /\ HoldsName(df, 0, d) /\ CellStr(df, 0, d) # <<India>>
                 /\ \E r \in 1..(Len(df) - 1) : HoldsName(df, r, d) /\ CellStr(df, r, d) = name}}

\* the names the data rows of the sheet hold
DataNames(df) ==
    {CellStr(df, rc[1], rc[2]) :
        rc \in {x \in (1..(Len(df) - 1)) \X (1..(Len(At(df, 0)) - 1)) : HoldsName(df, x[1], x[2])}}

\* C14 as stated: no name is a member of the countries lists of two regions.
C14_AsStated ==
    GeographyExtracted => \A n \in ListedNames : Cardinality(RegionsListing(n)) <= 1

\* C14 amended: a name is a member of the list of exactly the regions in whose
\* columns the sheet holds it, once in each list; a name the sheet holds in the
\* columns of two regions is a member of both lists.
C14_ListedWhereHeld ==
    (GeographyExtracted /\ RegionDf # <<>>) =>
        /\ \A n \in DataNames(RegionDf) \cup ListedNames :
              RegionsListing(n) = RegionsHolding(RegionDf, n)
        /\ \A i \in DOMAIN geographies.countries :
              LET lst == geographies.countries[i].list
              IN \A j, k \in DOMAIN lst : j # k => lst[j] # lst[k]
        /\ \A i, j \in DOMAIN geographies.countries :
              i # j => geographies.countries[i].region # geographies.countries[j].region

\* a name the sheet holds in the columns of two regions, listed under both
C14_Witness ==
    /\ GeographyExtracted
    /\ \E n \in ListedNames :
          /\ Cardinality(RegionsHolding(RegionDf, n)) = 2
          /\ Cardinality(RegionsListing(n)) = 2

----------------------------------------------------------------------------
(* The rules of extract_metadata *)

\* the run has extracted the metadata
MetadataExtracted ==
    /\ workbook.script = "convert"
    /\ pc \in {"geography", "segments", "value", "volume", "assemble", "save"}
          \/ (pc = "done" /\ console = "success")

ParamDf == workbook.Parameters.df

\* the fields of the eight rules, in the order the rules are tried
RuleField == <<"market_name", "market_type", "industry", "currency", "value_unit",
               "volume_unit", "has_value", "has_volume">>

\* the i-th rule matches the label key
RuleMatches(i, key) ==
    CASE i = 1 -> Contains(key, <<"Report", SP, "Title">>)
      [] i = 2 -> Contains(key, <<"Market", SP, "Type">>)
      [] i = 3 -> Contains(key, <<"Industry", SP, "Type">>)
      [] i = 4 -> Contains(key, <<"Value", SP, "Currency">>)
      [] i = 5 -> Contains(key, <<"Value", SP, "Unit">>)
      [] i = 6 -> Contains(key, <<"Volume", SP, "Unit">>)
      [] i = 7 -> Contains(key, <<"Value">>) /\ ~Contains(key, <<"Currency">>)
      [] i = 8 -> Contains(key, <<"Volume">>) /\ ~Contains(key, <<"Unit">>)

RulesMatching(key) == {i \in DOMAIN RuleField : RuleMatches(i, key)}

\* the label of a row, blanks trimmed; empty for an empty cell
RowKey(row) == IF notna(row[1]) THEN strip(str(row[1])) ELSE <<>>

\* the row has a label and a value the scan takes up ("if key and value")
RowUsed(row) ==
    RowKey(row) # <<>> /\ Len(row) > 1 /\ notna(row[2]) /\ Truthy(row[2])

\* the field of the first rule that matches the label, "" if none does
FirstRuleField(key) ==
    IF RulesMatching(key) = {} THEN "" ELSE RuleField[Min(RulesMatching(key))]

\* what a field keeps of a value
StoredValue(field, value) ==
    IF field \in {"has_value", "has_volume"} THEN IsYes(value) ELSE strip(str(value))

\* the rows taken up whose label populates field, the first matching rule deciding
RowsPopulating(df, field) ==
    {i \in DOMAIN df : RowUsed(df[i]) /\ FirstRuleField(RowKey(df[i])) = field}

\* C15 as stated: no label of the sheet matches two of the eight rules.
C15_AsStated ==
    MetadataExtracted =>
        \A i \in DOMAIN ParamDf : Cardinality(RulesMatching(RowKey(ParamDf[i]))) <= 1

\* C15 amended: a label may match two rules ('Value Unit' matches the rule of
\* value_unit and the rule of has_value); a label populates the field of the
\* first rule that matches it, in the order the rules are listed, and no other.
C15_FirstMatchWins ==
    MetadataExtracted =>
        \A f \in ToSet(RuleField) :
            IF RowsPopulating(ParamDf, f) # {}
            THEN metadata[f] = StoredValue(f, ParamDf[Max(RowsPopulating(ParamDf, f))][2])
            ELSE metadata[f] = MetadataDefaults(EmptyDict)[f]

\* a row labelled 'Value Unit' has set value_unit and left has_value alone
C15_Witness ==
    /\ MetadataExtracted
    /\ \E i \in DOMAIN ParamDf :
          /\ RowUsed(ParamDf[i])
          /\ RulesMatching(RowKey(ParamDf[i])) = {5, 7}
          /\ ParamDf[i][2] = W("No")
          /\ metadata["value_unit"] = <<"No">>
          /\ metadata["has_value"] = TRUE

----------------------------------------------------------------------------
(* The rows extract_metadata takes up *)

\* neither the label nor the value cell of the row is empty
RowFilled(row) == RowKey(row) # <<>> /\ Len(row) > 1 /\ notna(row[2])

\* the rows with a label and a value whose label populates field
FilledRowsPopulating(df, field) ==
    {i \in DOMAIN df : RowFilled(df[i]) /\ FirstRuleField(RowKey(df[i])) = field}

\* C16: the record has the eight canonical fields; a row is skipped only when
\* its label or its value cell is empty; a field holds the value of the last
\* row not skipped whose label matches its rule, and its documented default
\* exactly when there is no such row.
C16_FieldsFromLastRow ==
    MetadataExtracted =>
        /\ DOMAIN metadata = ToSet(RuleField)
        /\ \A f \in ToSet(RuleField) :
              IF FilledRowsPopulating(ParamDf, f) # {}
              THEN metadata[f] = StoredValue(f, ParamDf[Max(FilledRowsPopulating(ParamDf, f))][2])
              ELSE metadata[f] = MetadataDefaults(EmptyDict)[f]

----------------------------------------------------------------------------
(* Segment resolution of a record *)

\* the label of a segment-level cell, empty when the cell is empty or blank
LevelLabel(cell) == IF notna(cell) THEN strip(str(cell)) ELSE <<>>

\* the first of the texts that is not empty, empty if none is
FirstNonEmpty(texts) ==
    IF \E i \in DOMAIN texts : texts[i] # <<>>
    THEN texts[Min({i \in DOMAIN texts : texts[i] # <<>>})]
    ELSE <<>>

\* C17: in every record segment_type is the level-1 label or ''; segment is the
\* first non-empty of level 4, level 3, level 2 and segment_type, hence '' when
\* all four are absent; segment_level is 'parent' exactly when level 3 or level
\* 4 is non-empty, else 'leaf'; segment_hierarchy carries the four levels, ''
\* for an absent one.
C17_SegmentResolution ==
    ValueExtracted =>
        LET rows == RowsWithGeography(ValueDf.rows) IN
        \A i \in DOMAIN value_records :
            LET r  == value_records[i]
                l1 == LevelLabel(rows[i].L1)
                l2 == LevelLabel(rows[i].L2)
                l3 == LevelLabel(rows[i].L3)
                l4 == LevelLabel(rows[i].L4)
            IN /\ r.segment_type = l1
               /\ r.segment = Text(FirstNonEmpty(<<l4, l3, l2, l1>>))
               /\ r.segment_level = (IF l3 # <<>> \/ l4 # <<>> THEN "parent" ELSE "leaf")
               /\ r.segment_hierarchy = [level_1 |-> l1, level_2 |-> l2,
                                         level_3 |-> l3, level_4 |-> l4]

----------------------------------------------------------------------------
(* The distributors of a sheet *)

\* the distributors run has ended
DistributorsDone == workbook.script = "distributors" /\ pc = "done"

\* the sheet can be read and has its header row
Readable(sheet) == sheet.present /\ Len(sheet.df) > header_row_idx

\* the cell c of a row as a record keeps it: the trimmed text, null if the cell
\* is empty, blank or beyond the row's width
TrimmedOrNull(row, c) ==
    IF c < Len(row) /\ notna(At(row, c)) /\ strip(str(At(row, c))) # <<>>
    THEN Text(strip(str(At(row, c))))
    ELSE NoText

\* column 0 of the row is empty
FirstCellEmpty(row) == ~notna(At(row, 0)) \/ strip(str(At(row, 0))) = <<>>

\* the data rows a record is emitted for: column 0 not empty, company_name
\* (column 1) not empty
EmittedRows(df) ==
    {idx \in data_start_idx..(Len(df) - 1) :
        ~FirstCellEmpty(At(df, idx)) /\ TrimmedOrNull(At(df, idx), 1).some}

\* column 0 of the row reads as a number
FirstCellNumeric(row) ==
    At(row, 0).t \in {"num", "flt"} \/ (At(row, 0).t = "str" /\ isdigit(strip(At(row, 0).s)))

\* the record d is the one the row gives in the tier named module
IsRecordOf(d, row, module) ==
    LET mapping == get_module_field_mapping(module) IN
    /\ d.module = module
    /\ d.id.slug = Slug(module)
    /\ FirstCellNumeric(row) => d.id.n = IntOf(At(row, 0))
    /\ d.s_no = (IF isdigit(str(At(row, 0)))
                 THEN [some |-> TRUE, n |-> IntOf(At(row, 0))]
                 ELSE [some |-> FALSE, n |-> 0])
    /\ \A c \in (DOMAIN mapping) \ {0} : d.fields[mapping[c]] = TrimmedOrNull(row, c)

\* C18: the records of a sheet are those of its data rows (index >= 5) whose
\* column 0 and company_name are not empty, in row order, each with its id,
\* tier name, s_no (null unless column 0 is digits) and one entry per mapped
\* column > 0; a row whose column 0 is neither empty nor numeric does not abort
\* the extraction.
C18_RecordsOfDataRows ==
    DistributorsDone =>
        \A m \in DOMAIN modules :
            Readable(workbook.sheets[m]) =>
                LET df == workbook.sheets[m].df
                    emitted == SetToSorted(EmittedRows(df))
                    data == result.data[modules[m]]
                IN /\ Len(data) = Len(emitted)
                   /\ \A k \in DOMAIN data : IsRecordOf(data[k], At(df, emitted[k]), modules[m])

----------------------------------------------------------------------------
(* The base year of the assembled document *)

\* the value records of the assembled document
DocumentValueRecords == result.data.value.geography_segment_matrix

\* C19: the market_share of the value records is computed for the year the
\* document reports as metadata.base_year: whenever the total of the value
\* records at that year is positive, each record's market_share is its value
\* at that year divided by the total, also when 2024 is no year column.
C19_BaseYearConsistency ==
    Assembled =>
        LET base_year == result.metadata["base_year"] IN
        YearTotal(DocumentValueRecords, base_year) > 0
            => SharesAre(DocumentValueRecords, base_year, 1)

----------------------------------------------------------------------------
(* The years of the assembled document *)

\* C20: for every set of value records, the empty one included, start_year <=
\* base_year <= forecast_year; historical_years and forecast_years are disjoint
\* and their concatenation is years; when years is not empty, start_year,
\* base_year and forecast_year are members of years.
C20_AssemblerInvariant ==
    Assembled =>
        LET m == result.metadata IN
        /\ m["start_year"] <= m["base_year"]
        /\ m["base_year"] <= m["forecast_year"]
        /\ ToSet(m["historical_years"]) \cap ToSet(m["forecast_years"]) = {}
        /\ m["historical_years"] \o m["forecast_years"] = m["years"]
        /\ m["years"] # <<>> =>
              {m["start_year"], m["base_year"], m["forecast_year"]} \subseteq ToSet(m["years"])

\* a document whose only year follows 2024: base_year falls back to start_year
C20_Witness ==
    /\ Assembled
    /\ result.metadata["years"] = <<2025>>
    /\ result.metadata["base_year"] = 2025
    /\ result.metadata["historical_years"] = <<2025>>
    /\ result.metadata["forecast_years"] = <<>>

----------------------------------------------------------------------------
(* The column a segment type is read from *)

\* the columns of the header row (row 0, columns 1..N) that hold the type name
HeaderColumns(df, name) ==
    {c \in 1..(Len(At(df, 0)) - 1) : notna(iloc(df, 0, c)) /\ CellStr(df, 0, c) = name}

\* the clean labels of column c, rows 1..M
ColumnLabels(df, c) ==
    {CleanLabel(df, r, c) : r \in {q \in 1..(Len(df) - 1) : IsLabel(df, q, c)}}

\* C21: the labels collected for a segment type are read from the header column
\* that holds its name, whatever the header row: blank cells between or before
\* the type names do not move the column.
C21_ColumnAlignment ==
    SegmentsExtracted =>
        \A name \in DOMAIN segments :
            \E c \in HeaderColumns(SegDf, name) :
                /\ segments[name].items = ColumnLabels(SegDf, c)
                /\ segments[name].hierarchy = NonEmptyParentHierarchy(SegDf, c)

----------------------------------------------------------------------------
(* The manifest of the distributor tiers *)

\* the field names of a column-to-field table
FieldNames(mapping) == {mapping[c] : c \in DOMAIN mapping}

\* the fields the sections of a tier list
SectionFields(sections) == UNION {ToSet(sections[s]) : s \in DOMAIN sections}

\* no field is listed twice, in one section or in two
ListedOnce(sections) ==
    /\ \A s \in DOMAIN sections :
          \A i, j \in DOMAIN sections[s] : i # j => sections[s][i] # sections[s][j]
    /\ \A s, u \in DOMAIN sections :
          s # u => ToSet(sections[s]) \cap ToSet(sections[u]) = {}

\* C22: for each of the three tiers the table of get_module_field_mapping
\* assigns no field to two columns, has as many columns as the total_fields the
\* output metadata declares (14, 18, 33), and its fields other than s_no are
\* those of the lists of get_module_sections, none listed twice; the sections
\* stored in the document and the fields of the records are those.
C22_ManifestConsistency ==
    workbook.script = "distributors" =>
        \A m \in DOMAIN modules :
            LET mapping  == get_module_field_mapping(modules[m])
                sections == get_module_sections(modules[m])
            IN /\ \A c, d \in DOMAIN mapping : mapping[c] = mapping[d] => c = d
               /\ Cardinality(DOMAIN mapping) = total_fields(modules[m])
               /\ FieldNames(mapping) \ {"s_no"} = SectionFields(sections)
               /\ ListedOnce(sections)
               /\ (m <= module_idx /\ ~ExtractDistributorsRaises(workbook.sheets[m])) =>
                     /\ result.sections[modules[m]] = sections
                     /\ \A k \in DOMAIN result.data[modules[m]] :
                           DOMAIN result.data[modules[m]][k].fields = SectionFields(sections)

\* the three tiers have been extracted, a Premium record with its 32 fields
C22_Witness ==
    /\ DistributorsDone
    /\ \A m \in DOMAIN modules : Len(result.data[modules[m]]) > 0
    /\ Cardinality(DOMAIN result.data[modules[3]][1].fields) = 32
    /\ Cardinality(DOMAIN result.sections[modules[3]]) = 7
    /\ Cardinality(DOMAIN result.sections[modules[1]]) = 2

=============================================================================
